---------------------------- MODULE Spec2Model ----------------------------
(***************************************************************************)
(* A model of the multi-scale port detection core:                         *)
(*   src/src/clustering.py      Clusterer (_cluster_one_chunk,             *)
(*                              run_multiscale, _deduplicate_clusters)     *)
(*   src/src/postprocessing.py  PortPostProcessor (merge_clusters,         *)
(*                              compute_area_and_categorize)               *)
(*                                                                         *)
(* Geometry of clustering, dedup and merge.  All points lie on one         *)
(* meridian, where the haversine distance of two points is exactly         *)
(* EARTH_RADIUS_KM * |lat1 - lat2| (radians).                              *)
(* A latitude is an integer number of grid units, one grid unit being the  *)
(* arc of one length unit, and eps_km is an integer number of the same     *)
(* length units.  "d <= 1.5 * eps_km / R" is then 2 * |lat1 - lat2| <=     *)
(* 3 * eps_km.  A centroid is the arithmetic mean of integer latitudes,    *)
(* kept as an exact fraction [num, den] in lowest terms.  Floating-point   *)
(* rounding is not modelled.  The area computation has points in the      *)
(* plane; its units are described where it is defined.                     *)
(***************************************************************************)
EXTENDS Integers, Sequences, FiniteSets, TLC

VARIABLES
  \* ---- suppression passes (Clusterer._deduplicate_clusters, PortPostProcessor)
  all_scale_clusters,  \* the candidate pool, the list handed to _deduplicate_clusters
  raw_clusters,        \* the list it returned last (Clusterer.raw_clusters)
  dedup_runs,          \* how many times dedup ran (a 2nd run is over its own output)
  pp_clusters,         \* PortPostProcessor.clusters
  final_ports,         \* PortPostProcessor.final_ports
  pp_state,            \* "none" | "new" | "merged" | "KeyError"
  \* ---- one call of Clusterer._cluster_one_chunk
  chunk_info,          \* its chunk_info argument: [chunk_id, rows, fault]
  scale_config,        \* its scale_key and scale_config: [key, eps_km, min_samples]
  labels,              \* model.fit_predict(coords_rad), <<>> before it ran
  chunk_result,        \* the list it returned
  chunk_pc,            \* "idle" | "call" | "too_few" | "clustered" | "error"
  \* ---- Clusterer.run_multiscale
  filtered_chunks,     \* Clusterer.filtered_chunks
  configs,             \* config.DBSCAN_CONFIGS, as the sequence of its items
  n_cores,             \* Clusterer.n_cores
  scale_i,             \* the position in configs of the scale the loop is at
  task,                \* per argument tuple: "queued" | "running" | "done"
  results,             \* what pool.starmap collects, per slot
  task_runs,           \* per scale and partition, how often its task was started
  finished,            \* the tasks <<scale position, partition>> in the order they finished
  run_pc,              \* "idle" | "loop" | "pool" | "done" | "aborted"
  \* ---- one call of PortPostProcessor.compute_area_and_categorize
  ports_in,            \* self.final_ports as the call found it
  geo_pc,              \* "idle" | "call" | "returned"
  \* ---- calls made on one PortPostProcessor
  calls,               \* the methods called so far, in order: "merge" | "compute"
  call_ret,            \* what the last call returned, <<>> if it raised
  footprints,          \* the ports merge_clusters builds from self.clusters, with their rows
  \* ---- one run of cli.main
  input_exists,        \* os.path.exists(config.AIS_INPUT_FILE)
  stages,              \* the stages main ran so far, in order
  main_pc              \* where main is, or the return it took

suppressVars ==
  <<all_scale_clusters, raw_clusters, dedup_runs, pp_clusters, final_ports, pp_state>>
chunkVars == <<chunk_info, scale_config, labels, chunk_result, chunk_pc>>
runVars ==
  <<filtered_chunks, configs, n_cores, scale_i, task, results, task_runs,
    finished, run_pc>>
geomVars == <<ports_in, geo_pc>>
callVars == <<calls, call_ret, footprints>>
mainVars == <<input_exists, stages, main_pc>>
vars == <<suppressVars, chunkVars, runVars, geomVars, callVars, mainVars>>

(***************************************************************************)
(* Bounds of the model.                                                    *)
(***************************************************************************)
MaxClusters == 3      \* longest list handed to a suppression pass
MaxLat == 4           \* largest latitude (grid units) of a row of a chunk
MaxMinSamples == 4    \* largest min_samples of a scale a chunk is clustered at
MaxShortRows == 3     \* most rows of a chunk whose rows are in any order
MaxChunks == 2        \* most partitions handed to run_multiscale

\* The member points (latitudes, in grid units) of the input clusters: centres
\* 0, 3 and 2, so that with radii 1.5 and 3 a pair of centres is strictly
\* inside a radius, on it, or outside it.
PointSeqs == {<<0>>, <<3>>, <<1, 3>>}
\* The eps_km values of the input clusters.
EpsValues == {1, 2}
\* Scale keys of input clusters; "anchorage" is in no priority table.
ScaleKeys == {"major_ports", "small_harbors", "anchorage"}

(***************************************************************************)
(* Arithmetic helpers.                                                     *)
(***************************************************************************)
Abs(x) == IF x < 0 THEN -x ELSE x

RECURSIVE Gcd(_, _)
Gcd(a, b) == IF b = 0 THEN a ELSE Gcd(b, a % b)

RECURSIVE SumTo(_, _)
SumTo(s, n) == IF n = 0 THEN 0 ELSE s[n] + SumTo(s, n - 1)

SumSeq(s) == SumTo(s, Len(s))

\* pts.mean(): the exact mean of a non-empty sequence of integer latitudes.
Mean(pts) ==
  LET s == SumSeq(pts)
      n == Len(pts)
      g == Gcd(Abs(s), n)
  IN  [num |-> s \div g, den |-> n \div g]

\* Twice the distance of two centroids, times both denominators (exact).
Dist2(a, b) == 2 * Abs(a.num * b.den - b.num * a.den)

\* dist(a, b) <= r, for r2 = 2 * r  (the inclusive test of query_radius).
WithinRadius(a, b, r2) == Dist2(a, b) <= r2 * a.den * b.den

\* dist(a, b) < r, for r2 = 2 * r
StrictlyInside(a, b, r2) == Dist2(a, b) < r2 * a.den * b.den


(***************************************************************************)
(* Cluster records (the dicts built at clustering.py:75-84).  center_lon   *)
(* is the same for every cluster (one meridian) and is left out.           *)
(***************************************************************************)
MakeCluster(chunk_id, scale_key, pts, eps_km, min_samples) ==
  [chunk_id |-> chunk_id, scale |-> scale_key, points |-> pts,
   center_lat |-> Mean(pts), point_count |-> Len(pts),
   eps_km |-> eps_km, min_samples_used |-> min_samples]

\* dict.get(key, default)
DictGet(d, key, default) == IF key \in DOMAIN d THEN d[key] ELSE default

\* The ascending sequence of the elements of a finite set of integers.
RECURSIVE SetToSeq(_)
SetToSeq(S) ==
  IF S = {} THEN <<>>
  ELSE LET m == CHOOSE x \in S : \A y \in S : x <= y
       IN  <<m>> \o SetToSeq(S \ {m})

(***************************************************************************)
(* What both suppression passes share: the ranking key, Python's stable    *)
(* sorted(), and BallTree.query_radius.                                    *)
(***************************************************************************)
\* The key with its components swapped: (-point_count, priorities[i]).
KeyLessCountFirst(prio, cl, i, j) ==
  \/ -cl[i].point_count < -cl[j].point_count
  \/ cl[i].point_count = cl[j].point_count /\ prio[i] < prio[j]

\* key(i) < key(j) for key = (priorities[i], -point_count)
KeyLess(prio, cl, i, j) ==
  \/ prio[i] < prio[j]
  \/ prio[i] = prio[j] /\ -cl[i].point_count < -cl[j].point_count

\* A sort that reverses the insertion order of ties (as sorting the negated
\* key with reverse=True does).
sorted_idx_ties_reversed(prio, cl) ==
  LET n == Len(cl)
      before(j, i) == KeyLess(prio, cl, j, i) \/ (~KeyLess(prio, cl, i, j) /\ j > i)
      rank(i) == 1 + Cardinality({j \in 1..n : before(j, i)})
  IN  [p \in 1..n |-> CHOOSE i \in 1..n : rank(i) = p]

\* The indices left in insertion order: range(n), not sorted.
sorted_idx_insertion_order(prio, cl) == [p \in 1..Len(cl) |-> p]

\* sorted(range(n), key=...): stable, ties keep insertion order.
sorted_idx(prio, cl) ==
  LET n == Len(cl)
      before(j, i) == KeyLess(prio, cl, j, i) \/ (~KeyLess(prio, cl, i, j) /\ j < i)
      rank(i) == 1 + Cardinality({j \in 1..n : before(j, i)})
  IN  [p \in 1..n |-> CHOOSE i \in 1..n : rank(i) = p]

\* tree.query_radius(coords_rad[idx], r)[0] for r2 = 2 * r * EARTH_RADIUS_KM:
\* every index (idx included) whose centre is within the radius.
query_radius(cl, idx, r2) ==
  {j \in 1..Len(cl) : WithinRadius(cl[idx].center_lat, cl[j].center_lat, r2)}

(***************************************************************************)
(* Clusterer._deduplicate_clusters                                         *)
(***************************************************************************)
priority_map ==
  [major_ports |-> 0, regional_ports |-> 1, local_ports |-> 2, small_harbors |-> 3]

DedupPriorities(cl) ==
  [i \in 1..Len(cl) |-> DictGet(priority_map, cl[i].scale, 99)]

\* One radius for every record, from the largest eps_km of the list:
\* 1.5 * eps_km_arr.max() / R.
merge_radii_largest_eps(cl, idx) ==
  3 * (CHOOSE e \in {cl[i].eps_km : i \in 1..Len(cl)} :
         \A i \in 1..Len(cl) : cl[i].eps_km <= e)

\* merge_radii[idx] = 1.5 * eps_km_arr[idx] / R, as twice its length in km.
merge_radii(cl, idx) == 3 * cl[idx].eps_km

\* The walk with "taken[neighbors] = True" replaced by "taken[idx] = True".
RECURSIVE DedupWalkMarksSelfOnly(_, _, _, _, _)
DedupWalkMarksSelfOnly(cl, order, k, taken, deduped) ==
  IF k > Len(order) THEN deduped
  ELSE LET idx == order[k] IN
       IF idx \in taken
       THEN DedupWalkMarksSelfOnly(cl, order, k + 1, taken, deduped)
       ELSE DedupWalkMarksSelfOnly(cl, order, k + 1, taken \cup {idx},
                                   Append(deduped, idx))

\* The walk of clustering.py:193-206 from position k of the sorted order:
\* the indices appended to deduped, in emission order.
RECURSIVE DedupWalk(_, _, _, _, _)
DedupWalk(cl, order, k, taken, deduped) ==
  IF k > Len(order) THEN deduped
  ELSE LET idx == order[k] IN
       IF idx \in taken
       THEN DedupWalk(cl, order, k + 1, taken, deduped)
       ELSE DedupWalk(cl, order, k + 1,
                      taken \cup query_radius(cl, idx, merge_radii(cl, idx)),
                      Append(deduped, idx))

\* The indices of the survivors, in emission order.
DedupSurvivors(cl) ==
  DedupWalk(cl, sorted_idx(DedupPriorities(cl), cl), 1, {}, <<>>)

deduplicate_clusters(cl) ==
  IF cl = <<>> THEN <<>>
  ELSE LET s == DedupSurvivors(cl) IN [k \in 1..Len(s) |-> cl[s[k]]]

(***************************************************************************)
(* PortPostProcessor.merge_clusters                                        *)
(***************************************************************************)
scale_priority ==
  [major_ports |-> 0, regional_ports |-> 1, local_ports |-> 2, small_harbors |-> 3]

MergePriorities(cl) ==
  [i \in 1..Len(cl) |-> DictGet(scale_priority, cl[i].scale, 99)]

\* A merge radius of 3 * eps_km instead of 1.5 * eps_km.
merge_radius_rad_doubled(cl, idx) == 6 * cl[idx].eps_km

\* merge_radius_rad = 1.5 * eps_arr[idx] / R, as twice its length in km.
merge_radius_rad(cl, idx) == 3 * cl[idx].eps_km

\* The walk of postprocessing.py:72-90: the merge groups in emission order,
\* each the seed and the neighbours its radius query returned.
RECURSIVE MergeWalk(_, _, _, _, _)
MergeWalk(cl, order, k, taken, groups) ==
  IF k > Len(order) THEN groups
  ELSE LET idx == order[k] IN
       IF idx \in taken
       THEN MergeWalk(cl, order, k + 1, taken, groups)
       ELSE LET neighbors == query_radius(cl, idx, merge_radius_rad(cl, idx))
            IN  MergeWalk(cl, order, k + 1, taken \cup neighbors,
                          Append(groups, [seed |-> idx, neighbors |-> neighbors]))

MergeGroups(cl) ==
  MergeWalk(cl, sorted_idx(MergePriorities(cl), cl), 1, {}, <<>>)

\* np.vstack(group_points): the neighbours' points, one block per neighbour.
RECURSIVE VStack(_, _)
VStack(cl, nbrs) ==
  IF nbrs = <<>> THEN <<>>
  ELSE cl[Head(nbrs)].points \o VStack(cl, Tail(nbrs))

\* total_point_count assigned ("=") instead of accumulated ("+=").
TotalPointCountLastOnly(cl, nbrs) == cl[nbrs[Len(nbrs)]].point_count

\* total_point_count: the sum of the neighbours' point_count fields.
RECURSIVE TotalPointCount(_, _)
TotalPointCount(cl, nbrs) ==
  IF nbrs = <<>> THEN 0
  ELSE cl[Head(nbrs)].point_count + TotalPointCount(cl, Tail(nbrs))

\* scale_priority[x[0]] raises KeyError for a scale that is not a key.
GroupRaises(cl, neighbors) ==
  \E nbr \in neighbors : cl[nbr].scale \notin DOMAIN scale_priority

\* The scale of the neighbour with the largest point_count, whatever its
\* priority: key=lambda x: -x[1].
primary_scale_largest_count(cl, neighbors) ==
  LET best == CHOOSE b \in neighbors : \A o \in neighbors :
                \/ cl[b].point_count > cl[o].point_count
                \/ cl[b].point_count = cl[o].point_count /\ b <= o
  IN  cl[best].scale

\* sorted(group_scales, key=(scale_priority[x[0]], -x[1]))[0][0]
primary_scale(cl, neighbors) ==
  LET best == CHOOSE b \in neighbors : \A o \in neighbors :
                \/ scale_priority[cl[b].scale] < scale_priority[cl[o].scale]
                \/ /\ scale_priority[cl[b].scale] = scale_priority[cl[o].scale]
                   /\ cl[b].point_count >= cl[o].point_count
  IN  cl[best].scale

\* The dict appended to merged (postprocessing.py:92-116).
MergedPort(cl, g) ==
  LET nbrs == SetToSeq(g.neighbors)
      all_pts == VStack(cl, nbrs)
  IN  [center_lat |-> Mean(all_pts),
       points |-> all_pts,
       point_count |-> TotalPointCount(cl, nbrs),
       detected_scale |-> primary_scale(cl, g.neighbors),
       dbscan_clusters |-> Cardinality(g.neighbors)]

\* merge_clusters: [raised |-> a KeyError escaped, merged |-> the list returned].
merge_clusters(cl) ==
  IF cl = <<>> THEN [raised |-> FALSE, merged |-> <<>>]
  ELSE LET groups == MergeGroups(cl) IN
       IF \E k \in 1..Len(groups) : GroupRaises(cl, groups[k].neighbors)
       THEN [raised |-> TRUE, merged |-> <<>>]
       ELSE [raised |-> FALSE,
             merged |-> [k \in 1..Len(groups) |-> MergedPort(cl, groups[k])]]

(***************************************************************************)
(* Clusterer._cluster_one_chunk.  The rows of a chunk are the latitudes of *)
(* its points in file order.  eps_rad = eps_km / R, so two rows are within *)
(* eps_rad exactly when their latitudes differ by at most eps_km.          *)
(* chunk_info.fault says what is wrong with the chunk's file: "read" makes *)
(* pd.read_csv raise, "columns" (no Latitude/Longitude column) makes line  *)
(* 47 raise.                                                               *)
(***************************************************************************)
\* The eps-neighbourhood of row i, row i included (DBSCAN's radius_neighbors).
Neighborhood(rows, i, eps_km) ==
  {j \in 1..Len(rows) : Abs(rows[i] - rows[j]) <= eps_km}

\* DBSCAN's core samples: at least min_samples rows in the neighbourhood.
CoreSamples(rows, eps_km, min_samples) ==
  {i \in 1..Len(rows) : Cardinality(Neighborhood(rows, i, eps_km)) >= min_samples}

\* DBSCAN's inner loop for one seed: pop a row, label it if it is unlabelled
\* and, if it is a core sample, push its unlabelled neighbours.
RECURSIVE Expand(_, _, _, _, _, _)
Expand(rows, eps_km, core, lab, stack, label_num) ==
  IF stack = <<>> THEN lab
  ELSE LET i == stack[Len(stack)]
           rest == SubSeq(stack, 1, Len(stack) - 1)
           lab1 == IF lab[i] = -1 THEN [lab EXCEPT ![i] = label_num] ELSE lab
           push == IF lab[i] = -1 /\ i \in core
                   THEN SetToSeq({v \in Neighborhood(rows, i, eps_km) : lab1[v] = -1})
                   ELSE <<>>
       IN  Expand(rows, eps_km, core, lab1, rest \o push, label_num)

\* DBSCAN's outer loop from row i on: every unlabelled core sample seeds the
\* next label.
RECURSIVE DbscanLoop(_, _, _, _, _, _)
DbscanLoop(rows, eps_km, core, i, lab, label_num) ==
  IF i > Len(rows) THEN lab
  ELSE IF lab[i] # -1 \/ i \notin core
       THEN DbscanLoop(rows, eps_km, core, i + 1, lab, label_num)
       ELSE DbscanLoop(rows, eps_km, core, i + 1,
                       Expand(rows, eps_km, core, lab, <<i>>, label_num),
                       label_num + 1)

\* model.fit_predict(coords_rad): a label per row, -1 for noise.
fit_predict(rows, eps_km, min_samples) ==
  DbscanLoop(rows, eps_km, CoreSamples(rows, eps_km, min_samples), 1,
             [i \in 1..Len(rows) |-> -1], 0)

\* A loop over np.unique(labels) that does not skip the noise label.
ClusterLabelsWithNoise(lab) == SetToSeq({lab[i] : i \in 1..Len(lab)})

\* The labels the loop of lines 66-68 emits a cluster for, ascending.
ClusterLabels(lab) == SetToSeq({lab[i] : i \in 1..Len(lab)} \ {-1})

\* coords_deg[mask]: the rows with the label, in file order.
Masked(rows, lab, label) ==
  LET mask == SetToSeq({i \in 1..Len(rows) : lab[i] = label})
  IN  [k \in 1..Len(mask) |-> rows[mask[k]]]

\* A gate that also rejects a chunk of exactly min_samples rows.
TooFewRowsInclusive(n, min_samples) == n <= min_samples

\* len(df) < scale_config["min_samples"]
TooFewRows(n, min_samples) == n < min_samples

\* The try block (lines 42-86): how it ended, the labels and the clusters.
ClusterTry(ci, key, cfg) ==
  IF ci.fault = "read"
  THEN [raised |-> TRUE, path |-> "error", labels |-> <<>>, clusters |-> <<>>]
  ELSE IF TooFewRows(Len(ci.rows), cfg.min_samples)
  THEN [raised |-> FALSE, path |-> "too_few", labels |-> <<>>, clusters |-> <<>>]
  ELSE IF ci.fault = "columns"
  THEN [raised |-> TRUE, path |-> "error", labels |-> <<>>, clusters |-> <<>>]
  ELSE LET lab == fit_predict(ci.rows, cfg.eps_km, cfg.min_samples)
           ls == ClusterLabels(lab)
       IN  [raised |-> FALSE, path |-> "clustered", labels |-> lab,
            clusters |-> [k \in 1..Len(ls) |->
                            MakeCluster(ci.chunk_id, key, Masked(ci.rows, lab, ls[k]),
                                        cfg.eps_km, cfg.min_samples)]]

\* The body without its try/except: an exception leaves the call.
cluster_one_chunk_unguarded(ci, key, cfg) == ClusterTry(ci, key, cfg)

\* _cluster_one_chunk: "except Exception" logs and returns [].
cluster_one_chunk(ci, key, cfg) ==
  LET r == ClusterTry(ci, key, cfg)
  IN  IF r.raised THEN [r EXCEPT !.raised = FALSE, !.clusters = <<>>] ELSE r

(***************************************************************************)
(* The suppression passes as a state machine.  The list handed to dedup    *)
(* is any list of at most MaxClusters clusters; the post-processor is      *)
(* built over the dedup output (cli.py:57) or over the list itself.        *)
(***************************************************************************)
\* Clusters of the scales of the priority tables, and one of a scale that is
\* in neither.
InputClusters ==
  {MakeCluster(0, sk, pts, eps, 1) :
     sk \in ScaleKeys \cap DOMAIN priority_map, pts \in PointSeqs, eps \in EpsValues}
  \cup {MakeCluster(0, sk, <<0>>, 1, 1) : sk \in ScaleKeys \ DOMAIN priority_map}

ClusterLists == UNION {[1..n -> InputClusters] : n \in 0..MaxClusters}

\* No call of _cluster_one_chunk is under way.
ChunkIdle ==
  /\ chunk_info = [chunk_id |-> 0, rows |-> <<>>, fault |-> "none"]
  /\ scale_config = [key |-> "none", eps_km |-> 1, min_samples |-> 1]
  /\ labels = <<>>
  /\ chunk_result = <<>>
  /\ chunk_pc = "idle"

\* No call of run_multiscale is under way.
RunIdle ==
  /\ filtered_chunks = <<>>
  /\ configs = <<>>
  /\ n_cores = 1
  /\ scale_i = 1
  /\ task = <<>>
  /\ results = <<>>
  /\ task_runs = <<>>
  /\ finished = <<>>
  /\ run_pc = "idle"

\* No call of compute_area_and_categorize is under way.
GeomIdle ==
  /\ ports_in = <<>>
  /\ geo_pc = "idle"

\* No method of the post-processor was called yet.
CallIdle ==
  /\ calls = <<>>
  /\ call_ret = <<>>
  /\ footprints = <<>>

\* main does not run.
MainIdle ==
  /\ input_exists = TRUE
  /\ stages = <<>>
  /\ main_pc = "idle"

\* Nothing was deduplicated or post-processed yet.
SuppressIdle ==
  /\ raw_clusters = <<>>
  /\ dedup_runs = 0
  /\ pp_clusters = <<>>
  /\ final_ports = <<>>
  /\ pp_state = "none"

InitSuppress ==
  /\ all_scale_clusters \in ClusterLists
  /\ SuppressIdle
  /\ ChunkIdle
  /\ RunIdle
  /\ GeomIdle
  /\ CallIdle
  /\ MainIdle

\* self.raw_clusters = self._deduplicate_clusters(all_scale_clusters)
Deduplicate ==
  /\ dedup_runs = 0
  /\ pp_state = "none"
  /\ raw_clusters' = deduplicate_clusters(all_scale_clusters)
  /\ dedup_runs' = 1
  /\ UNCHANGED <<all_scale_clusters, pp_clusters, final_ports, pp_state>>
  /\ UNCHANGED <<chunkVars, runVars, geomVars>>
  /\ UNCHANGED <<callVars, mainVars>>

\* _deduplicate_clusters run again, over its own output.
DeduplicateAgain ==
  /\ dedup_runs = 1
  /\ pp_state = "none"
  /\ raw_clusters' = deduplicate_clusters(raw_clusters)
  /\ dedup_runs' = 2
  /\ UNCHANGED <<all_scale_clusters, pp_clusters, final_ports, pp_state>>
  /\ UNCHANGED <<chunkVars, runVars, geomVars>>
  /\ UNCHANGED <<callVars, mainVars>>

\* PortPostProcessor(raw_clusters), or PortPostProcessor over the raw list.
NewPostProcessor ==
  /\ pp_state = "none"
  /\ dedup_runs < 2
  /\ pp_clusters' = IF dedup_runs = 1 THEN raw_clusters ELSE all_scale_clusters
  /\ final_ports' = <<>>
  /\ pp_state' = "new"
  /\ UNCHANGED <<all_scale_clusters, raw_clusters, dedup_runs>>
  /\ UNCHANGED <<chunkVars, runVars, geomVars>>
  /\ UNCHANGED <<callVars, mainVars>>

\* postproc.merge_clusters()
MergeClusters ==
  /\ pp_state = "new"
  /\ LET r == merge_clusters(pp_clusters) IN
       IF r.raised
       THEN pp_state' = "KeyError" /\ UNCHANGED final_ports
       ELSE /\ pp_state' = "merged"
            /\ final_ports' = IF pp_clusters = <<>> THEN final_ports ELSE r.merged
  /\ UNCHANGED <<all_scale_clusters, raw_clusters, dedup_runs, pp_clusters>>
  /\ UNCHANGED <<chunkVars, runVars, geomVars>>
  /\ UNCHANGED <<callVars, mainVars>>

NextSuppress ==
  \/ Deduplicate
  \/ DeduplicateAgain
  \/ NewPostProcessor
  \/ MergeClusters

SpecSuppress == InitSuppress /\ [][NextSuppress]_vars

(***************************************************************************)
(* The same passes over clusters of the shipped scale table, where a       *)
(* cluster's eps_km and min_samples are those of its scale.  The length    *)
(* unit is 0.1 km: eps_km is 13, 10, 5 and 2, and the centres 0, 6 and 16  *)
(* are 0.6, 1.0 and 1.6 km apart, inside some of the radii 1.95, 1.5, 0.75 *)
(* and 0.3 km and outside others.                                          *)
(***************************************************************************)
MaxShippedClusters == 3   \* longest list of shipped-scale clusters handed to dedup

\* config.DBSCAN_CONFIGS, eps_km in units of 0.1 km.
DBSCAN_CONFIGS ==
  << [key |-> "major_ports",    eps_km |-> 13, min_samples |-> 200],
     [key |-> "regional_ports", eps_km |-> 10, min_samples |-> 150],
     [key |-> "local_ports",    eps_km |-> 5,  min_samples |-> 60],
     [key |-> "small_harbors",  eps_km |-> 2,  min_samples |-> 30] >>

ShippedPointSeqs == {<<0>>, <<4, 8>>, <<16>>}

ShippedClusters ==
  {MakeCluster(0, DBSCAN_CONFIGS[s].key, pts, DBSCAN_CONFIGS[s].eps_km,
               DBSCAN_CONFIGS[s].min_samples) :
     s \in 1..Len(DBSCAN_CONFIGS), pts \in ShippedPointSeqs}

ShippedLists == UNION {[1..n -> ShippedClusters] : n \in 0..MaxShippedClusters}

InitShipped ==
  /\ all_scale_clusters \in ShippedLists
  /\ SuppressIdle
  /\ ChunkIdle
  /\ RunIdle
  /\ GeomIdle
  /\ CallIdle
  /\ MainIdle

SpecShipped == InitShipped /\ [][NextSuppress]_vars

(***************************************************************************)
(* The same passes over clusters of two known scales where the scale       *)
(* ranked second has the larger eps_km as well as the smaller one.         *)
(***************************************************************************)
MaxCoverClusters == 3   \* longest list of such clusters handed to dedup

CoverClusters ==
  {MakeCluster(0, "major_ports", pts, 1, 1) : pts \in PointSeqs}
  \cup {MakeCluster(0, "small_harbors", pts, eps, 1) : pts \in PointSeqs, eps \in EpsValues}

CoverLists == UNION {[1..n -> CoverClusters] : n \in 0..MaxCoverClusters}

InitCover ==
  /\ all_scale_clusters \in CoverLists
  /\ SuppressIdle
  /\ ChunkIdle
  /\ RunIdle
  /\ GeomIdle
  /\ CallIdle
  /\ MainIdle

SpecCover == InitCover /\ [][NextSuppress]_vars


(***************************************************************************)
(* One call of _cluster_one_chunk as a state machine.  The chunk is any    *)
(* file of up to 2 rows per latitude 0..MaxLat in ascending or descending  *)
(* order, or of at most MaxShortRows rows in any order.                    *)
(***************************************************************************)
Multiplicities == {0, 1, 2}
Faults == {"none", "read", "columns"}

RECURSIVE Repeat(_, _)
Repeat(x, n) == IF n = 0 THEN <<>> ELSE <<x>> \o Repeat(x, n - 1)

RECURSIVE RowsOf(_, _)
RowsOf(m, lat) == IF lat > MaxLat THEN <<>> ELSE Repeat(lat, m[lat]) \o RowsOf(m, lat + 1)

Reverse(q) == [i \in 1..Len(q) |-> q[Len(q) + 1 - i]]

SortedRows == {RowsOf(m, 0) : m \in [0..MaxLat -> Multiplicities]}
ShortRows == UNION {[1..n -> 0..MaxLat] : n \in 0..MaxShortRows}
ChunkRows == SortedRows \cup {Reverse(r) : r \in SortedRows} \cup ShortRows

ChunkConfigs ==
  [key : {"local_ports"}, eps_km : EpsValues, min_samples : 1..MaxMinSamples]

InitChunk ==
  /\ chunk_info \in [chunk_id : {0}, rows : ChunkRows, fault : Faults]
  /\ scale_config \in ChunkConfigs
  /\ labels = <<>>
  /\ chunk_result = <<>>
  /\ chunk_pc = "call"
  /\ all_scale_clusters = <<>>
  /\ SuppressIdle
  /\ RunIdle
  /\ GeomIdle
  /\ CallIdle
  /\ MainIdle

\* self._cluster_one_chunk(chunk_info, scale_key, scale_config)
ClusterOneChunk ==
  /\ chunk_pc = "call"
  /\ LET r == cluster_one_chunk(chunk_info, scale_config.key, scale_config) IN
       /\ chunk_pc' = r.path
       /\ labels' = r.labels
       /\ chunk_result' = r.clusters
  /\ UNCHANGED <<chunk_info, scale_config, suppressVars, runVars, geomVars>>
  /\ UNCHANGED <<callVars, mainVars>>

NextChunk == ClusterOneChunk

SpecChunk == InitChunk /\ [][NextChunk]_vars

(***************************************************************************)
(* Clusterer.run_multiscale as a state machine: per scale a Pool of        *)
(* n_cores workers runs one task per partition; pool.starmap hands the     *)
(* tasks out in argument order, a worker finishes whenever it does, and    *)
(* the call returns when every task is done.                               *)
(***************************************************************************)
\* The files of the partitions of a run, and its worker counts.
RunRows == {<<0>>, <<0, 3>>, <<0, 1, 3>>}
CoreCounts == {1, 2}

\* Scale tables with the keys of DBSCAN_CONFIGS and eps_km and min_samples
\* of the size of the chunks above (the shipped min_samples, 30 to 200, are
\* beyond them), in priority order and against it.
ConfigMajor == [key |-> "major_ports", eps_km |-> 2, min_samples |-> 2]
ConfigSmall == [key |-> "small_harbors", eps_km |-> 1, min_samples |-> 1]
ScaleTables == {<<ConfigMajor, ConfigSmall>>, <<ConfigSmall, ConfigMajor>>}

ChunkLists ==
  UNION {{[p \in 1..n |-> [chunk_id |-> p - 1, rows |-> f[p][1], fault |-> f[p][2]]] :
            f \in [1..n -> RunRows \X Faults]} : n \in 0..MaxChunks}

NoResult == [raised |-> FALSE, path |-> "none", labels |-> <<>>, clusters |-> <<>>]

InitRun ==
  /\ filtered_chunks \in ChunkLists
  /\ configs \in ScaleTables
  /\ n_cores \in CoreCounts
  /\ scale_i = 1
  /\ task = <<>>
  /\ results = <<>>
  /\ task_runs = [s \in 1..Len(configs) |-> [p \in 1..Len(filtered_chunks) |-> 0]]
  /\ finished = <<>>
  /\ run_pc = "loop"
  /\ all_scale_clusters = <<>>
  /\ SuppressIdle
  /\ ChunkIdle
  /\ GeomIdle
  /\ CallIdle
  /\ MainIdle

\* Lines 103-120: the next scale's argument tuples and its Pool.
StartScaleReady == run_pc = "loop" /\ scale_i <= Len(configs)

StartScale ==
  /\ StartScaleReady
  /\ task' = [p \in 1..Len(filtered_chunks) |-> "queued"]
  /\ results' = [p \in 1..Len(filtered_chunks) |-> NoResult]
  /\ run_pc' = "pool"
  /\ UNCHANGED <<filtered_chunks, configs, n_cores, scale_i, task_runs, finished>>
  /\ UNCHANGED <<suppressVars, chunkVars, geomVars>>
  /\ UNCHANGED <<callVars, mainVars>>

\* A free worker takes the next argument tuple.
TaskStartReady(p) ==
  /\ run_pc = "pool"
  /\ task[p] = "queued"
  /\ \A q \in 1..(p - 1) : task[q] # "queued"
  /\ Cardinality({q \in 1..Len(task) : task[q] = "running"}) < n_cores

TaskStart(p) ==
  /\ TaskStartReady(p)
  /\ task' = [task EXCEPT ![p] = "running"]
  /\ task_runs' = [task_runs EXCEPT ![scale_i][p] = @ + 1]
  /\ UNCHANGED <<filtered_chunks, configs, n_cores, scale_i, results, finished, run_pc>>
  /\ UNCHANGED <<suppressVars, chunkVars, geomVars>>
  /\ UNCHANGED <<callVars, mainVars>>

\* A slot taken in the order the tasks finish (as imap_unordered fills it).
ResultSlotByCompletion(p, tk) == 1 + Cardinality({q \in 1..Len(tk) : tk[q] = "done"})

\* pool.starmap returns the results in the order of its argument tuples.
ResultSlot(p, tk) == p

\* A worker finishes _cluster_one_chunk for partition p at the current scale.
TaskFinishReady(p) == run_pc = "pool" /\ task[p] = "running"

TaskFinish(p) ==
  /\ TaskFinishReady(p)
  /\ LET cfg == configs[scale_i] IN
       results' = [results EXCEPT ![ResultSlot(p, task)] =
                     cluster_one_chunk(filtered_chunks[p], cfg.key, cfg)]
  /\ task' = [task EXCEPT ![p] = "done"]
  /\ finished' = Append(finished, <<scale_i, p>>)
  /\ UNCHANGED <<filtered_chunks, configs, n_cores, scale_i, task_runs, run_pc>>
  /\ UNCHANGED <<suppressVars, chunkVars, geomVars>>
  /\ UNCHANGED <<callVars, mainVars>>

\* [cluster for sublist in results for cluster in sublist]
RECURSIVE FlattenFrom(_, _)
FlattenFrom(res, p) ==
  IF p > Len(res) THEN <<>> ELSE res[p].clusters \o FlattenFrom(res, p + 1)

Flatten(res) == FlattenFrom(res, 1)

\* Lines 120-129: starmap returned (or re-raised a worker's exception), the
\* scale's clusters are appended to the pool and the loop goes on.
\* The results are collected as soon as no task is waiting, while tasks may
\* still be running (as with map_async and no wait).
JoinScaleWithoutWaiting == run_pc = "pool" /\ \A p \in 1..Len(task) : task[p] # "queued"

JoinScaleReady == run_pc = "pool" /\ \A p \in 1..Len(task) : task[p] = "done"

JoinScale ==
  /\ JoinScaleReady
  /\ IF \E p \in 1..Len(results) : results[p].raised
     THEN run_pc' = "aborted" /\ UNCHANGED <<all_scale_clusters, scale_i>>
     ELSE /\ all_scale_clusters' = all_scale_clusters \o Flatten(results)
          /\ scale_i' = scale_i + 1
          /\ run_pc' = "loop"
  /\ UNCHANGED <<filtered_chunks, configs, n_cores, task, results, task_runs, finished>>
  /\ UNCHANGED <<raw_clusters, dedup_runs, pp_clusters, final_ports, pp_state>>
  /\ UNCHANGED <<chunkVars, geomVars>>
  /\ UNCHANGED <<callVars, mainVars>>

\* Lines 136-140: the loop is over; deduplicate the pool and return.
RunDeduplicateReady == run_pc = "loop" /\ scale_i > Len(configs)

RunDeduplicate ==
  /\ RunDeduplicateReady
  /\ raw_clusters' = deduplicate_clusters(all_scale_clusters)
  /\ dedup_runs' = dedup_runs + 1
  /\ run_pc' = "done"
  /\ UNCHANGED <<all_scale_clusters, pp_clusters, final_ports, pp_state>>
  /\ UNCHANGED <<filtered_chunks, configs, n_cores, scale_i, task, results, task_runs,
                 finished>>
  /\ UNCHANGED <<chunkVars, geomVars>>
  /\ UNCHANGED <<callVars, mainVars>>

NextRun ==
  \/ StartScale
  \/ \E p \in 1..Len(filtered_chunks) : TaskStart(p)
  \/ \E p \in 1..Len(filtered_chunks) : TaskFinish(p)
  \/ JoinScale
  \/ RunDeduplicate

SpecRun == InitRun /\ [][NextRun]_vars

(***************************************************************************)
(* PortPostProcessor.compute_area_and_categorize                           *)
(*                                                                         *)
(* Geometry.  A member point of a merged port is <<lat, lon>>, counted in  *)
(* grid units of 1/11100 degree from the port's reference point, whose     *)
(* latitude is ref_lat whole degrees: 0.01 degree is 111 units, and at 111 *)
(* km per degree 100 units of latitude are 1 km.  The cosine is taken from *)
(* a table, in thousandths, at the whole degree of the mean hull latitude. *)
(* An area is counted in units of 10^-7 km2, in which                      *)
(*   latr * (lonr * cos(avg_lat)) * 111 * 111  [degrees]                   *)
(* is latr * lonr * cos_milli [grid units], because 111 * 111 / 11100^2 =  *)
(* 10^-4.  max_distance_km is a square root no statement here reads; it is *)
(* left out of the output record.                                          *)
(***************************************************************************)
MaxPorts == 2         \* longest list of merged ports handed to the geometry pass

\* config.PORT_SIZE_CATEGORIES, as the sequence of its items (km2 * 10^7).
PORT_SIZE_CATEGORIES ==
  << [name |-> "Major Commercial", min |-> 20000000, max |-> 150000000, color |-> "red"],
     [name |-> "Regional",         min |-> 5000000,  max |-> 20000000,  color |-> "orange"],
     [name |-> "Local/Industrial", min |-> 1000000,  max |-> 5000000,   color |-> "blue"],
     [name |-> "Small Harbor",     min |-> 100000,   max |-> 1000000,   color |-> "green"],
     [name |-> "Uncategorized",    min |-> 0,        max |-> 0,         color |-> "gray"] >>

MIN_PORT_AREA_KM2 == 50000          \* 0.005 km2
MAX_PORT_AREA_KM2 == 200000000      \* 20 km2

\* np.cos(np.radians(deg)) in thousandths, for the latitudes of the model.
CosMilli(deg) ==
  CASE deg = 0  -> 1000
    [] deg = 56 -> 559

\* The distinct points of an array of points.
PointSet(pts) == {pts[i] : i \in 1..Len(pts)}

\* Twice the signed area of the triangle o, a, b.
Cross(o, a, b) == (a[1] - o[1]) * (b[2] - o[2]) - (a[2] - o[2]) * (b[1] - o[1])

Min2(x, y) == IF x <= y THEN x ELSE y
Max2(x, y) == IF x >= y THEN x ELSE y

\* p lies on the closed segment a b.
OnSegment(p, a, b) ==
  /\ Cross(a, b, p) = 0
  /\ Min2(a[1], b[1]) <= p[1] /\ p[1] <= Max2(a[1], b[1])
  /\ Min2(a[2], b[2]) <= p[2] /\ p[2] <= Max2(a[2], b[2])

\* p lies in the closed triangle a b c, which is not degenerate.
InTriangle(p, a, b, c) ==
  /\ Cross(a, b, c) # 0
  /\ \/ Cross(a, b, p) >= 0 /\ Cross(b, c, p) >= 0 /\ Cross(c, a, p) >= 0
     \/ Cross(a, b, p) <= 0 /\ Cross(b, c, p) <= 0 /\ Cross(c, a, p) <= 0

\* Qhull cannot build a hull: fewer than 3 distinct points, or all collinear.
QhullError(pts) ==
  LET D == PointSet(pts)
  IN  \A a \in D, b \in D, c \in D : Cross(a, b, c) = 0

\* pts[hull.vertices]: the points that are in the hull of no other points.
HullVertices(pts) ==
  LET D == PointSet(pts)
  IN  {p \in D :
         LET S == D \ {p}
         IN  /\ ~\E a \in S, b \in S : OnSegment(p, a, b)
             /\ ~\E a \in S, b \in S, c \in S : InTriangle(p, a, b, c)}

\* np.ptp(hull_pts[:, c])
Ptp(hull_pts, c) ==
  LET V == {q[c] : q \in hull_pts}
  IN  (CHOOSE x \in V : \A y \in V : y <= x) - (CHOOSE x \in V : \A y \in V : x <= y)

RECURSIVE SumCoord(_, _)
SumCoord(hull_pts, c) ==
  IF hull_pts = {} THEN 0
  ELSE LET q == CHOOSE x \in hull_pts : TRUE
       IN  q[c] + SumCoord(hull_pts \ {q}, c)

\* hull_pts[:, 0].mean(), to the whole degree.
AvgLatDegree(ref_lat, hull_pts) ==
  ref_lat + (SumCoord(hull_pts, 1) \div Cardinality(hull_pts)) \div 11100

\* The area with the cos(avg_lat) correction left out.
AreaUncorrected(ref_lat, hull_pts) == Ptp(hull_pts, 1) * Ptp(hull_pts, 2) * 1000

\* area_km2 = latr * (lonr * correction) * 111 * 111
AreaKm2(ref_lat, hull_pts) ==
  LET latr == Ptp(hull_pts, 1)
      lonr == Ptp(hull_pts, 2)
      correction == CosMilli(AvgLatDegree(ref_lat, hull_pts))
  IN  latr * (lonr * correction)

\* The scan without its break: the last matching bucket wins.
CategoryScanNoBreak(area_km2, k, found) ==
  LET hits == {j \in 1..Len(PORT_SIZE_CATEGORIES) :
                 /\ PORT_SIZE_CATEGORIES[j].min <= area_km2
                 /\ area_km2 <= PORT_SIZE_CATEGORIES[j].max}
  IN  IF hits = {} THEN found
      ELSE PORT_SIZE_CATEGORIES[CHOOSE j \in hits : \A i \in hits : i <= j]

\* The scan with the lower bound exclusive: specs["min"] < area_km2.
RECURSIVE CategoryScanExclusiveMin(_, _, _)
CategoryScanExclusiveMin(area_km2, k, found) ==
  IF k > Len(PORT_SIZE_CATEGORIES) THEN found
  ELSE IF /\ PORT_SIZE_CATEGORIES[k].min < area_km2
          /\ area_km2 <= PORT_SIZE_CATEGORIES[k].max
       THEN PORT_SIZE_CATEGORIES[k]
       ELSE CategoryScanExclusiveMin(area_km2, k + 1, found)

\* for cat, specs in config.PORT_SIZE_CATEGORIES.items(): ... break
RECURSIVE CategoryScan(_, _, _)
CategoryScan(area_km2, k, found) ==
  IF k > Len(PORT_SIZE_CATEGORIES) THEN found
  ELSE IF /\ PORT_SIZE_CATEGORIES[k].min <= area_km2
          /\ area_km2 <= PORT_SIZE_CATEGORIES[k].max
       THEN PORT_SIZE_CATEGORIES[k]
       ELSE CategoryScan(area_km2, k + 1, found)

\* Lines 165-171: the default is "Uncategorized" with that bucket's color.
AssignCategory(area_km2) ==
  LET fallback == CHOOSE c \in {PORT_SIZE_CATEGORIES[j] : j \in 1..Len(PORT_SIZE_CATEGORIES)} :
                    c.name = "Uncategorized"
  IN  CategoryScan(area_km2, 1, [name |-> "Uncategorized", color |-> fallback.color,
                                  min |-> fallback.min, max |-> fallback.max])

\* Only the upper global limit is tested.
BelowGlobalMax(area_km2) == area_km2 <= MAX_PORT_AREA_KM2

\* config.MIN_PORT_AREA_KM2 <= area_km2 <= config.MAX_PORT_AREA_KM2
WithinGlobalLimits(area_km2) ==
  MIN_PORT_AREA_KM2 <= area_km2 /\ area_km2 <= MAX_PORT_AREA_KM2

\* pts.shape[0] < 3
TooFewPoints(pts) == Len(pts) < 3

\* One iteration of the loop over self.final_ports (lines 136-192): what
\* becomes of the port, and the record appended when it is kept.
PortTry(port) ==
  IF TooFewPoints(port.points) THEN [outcome |-> "too_few"]
  ELSE IF QhullError(port.points) THEN [outcome |-> "raised"]
  ELSE LET hull_pts == HullVertices(port.points)
           area_km2 == AreaKm2(port.ref_lat, hull_pts)
           cat == AssignCategory(area_km2)
       IN  IF WithinGlobalLimits(area_km2)
           THEN [outcome |-> "kept",
                 port |-> [ref_lat |-> port.ref_lat,
                           center_lat |-> port.center_lat,
                           center_lon |-> port.center_lon,
                           points |-> port.points,
                           point_count |-> port.point_count,
                           detected_scale |-> port.detected_scale,
                           dbscan_clusters |-> port.dbscan_clusters,
                           area_km2 |-> area_km2,
                           vessel_density |-> IF area_km2 > 0
                                              THEN [num |-> port.point_count, den |-> area_km2]
                                              ELSE [num |-> 0, den |-> 1],
                           category |-> cat.name,
                           color |-> cat.color]]
           ELSE [outcome |-> "filtered"]

\* The loop is left at a port with too few points.
StopAtTooFew(ports, k) == Len(ports) + 1

\* continue (line 139): the loop goes on with the next port.
AfterTooFew(ports, k) == k + 1

\* The loop is left at a port whose hull failed.
StopAtHullError(ports, k) == Len(ports) + 1

\* except Exception: ... continue (lines 189-192).
AfterHullError(ports, k) == k + 1

\* The loop of lines 134-192: out_ports in the order of self.final_ports.
RECURSIVE AreaLoop(_, _, _)
AreaLoop(ports, k, out_ports) ==
  IF k > Len(ports) THEN out_ports
  ELSE LET r == PortTry(ports[k])
       IN  CASE r.outcome = "too_few" -> AreaLoop(ports, AfterTooFew(ports, k), out_ports)
             [] r.outcome = "raised" -> AreaLoop(ports, AfterHullError(ports, k), out_ports)
             [] r.outcome = "filtered" -> AreaLoop(ports, k + 1, out_ports)
             [] r.outcome = "kept" -> AreaLoop(ports, k + 1, out_ports \o <<r.port>>)

\* The list sorted ascending by area (reverse=True forgotten).
SortByAreaAscending(out_ports) ==
  LET n == Len(out_ports)
      before(j, i) == \/ out_ports[j].area_km2 < out_ports[i].area_km2
                      \/ out_ports[j].area_km2 = out_ports[i].area_km2 /\ j < i
      rank(i) == 1 + Cardinality({j \in 1..n : before(j, i)})
  IN  [p \in 1..n |-> out_ports[CHOOSE i \in 1..n : rank(i) = p]]

\* out_ports.sort(key=lambda x: x["area_km2"], reverse=True): stable, equal
\* areas keep their order.
SortByAreaDescending(out_ports) ==
  LET n == Len(out_ports)
      before(j, i) == \/ out_ports[j].area_km2 > out_ports[i].area_km2
                      \/ out_ports[j].area_km2 = out_ports[i].area_km2 /\ j < i
      rank(i) == 1 + Cardinality({j \in 1..n : before(j, i)})
  IN  [p \in 1..n |-> out_ports[CHOOSE i \in 1..n : rank(i) = p]]

\* What the call returns and leaves in self.final_ports.
compute_area_and_categorize(ports) ==
  IF ports = <<>> THEN <<>>
  ELSE SortByAreaDescending(AreaLoop(ports, 1, <<>>))

(***************************************************************************)
(* One call of compute_area_and_categorize on the merged ports.            *)
(***************************************************************************)
Rect(a, b) == <<<<0, 0>>, <<a, 0>>, <<a, b>>, <<0, b>>>>

\* Member points of the merged ports of the model.  At the equator a
\* rectangle of a by b units has an area of a * b * 10^-4 km2.
DegenerateShapes ==
  { <<<<0, 0>>, <<111, 111>>>>,                    \* exactly 2 points
    <<<<0, 0>>, <<50, 50>>, <<100, 100>>>>,        \* 3 collinear points
    <<<<0, 0>>, <<0, 0>>, <<100, 100>>>> }         \* 3 rows, 2 distinct points

HullShapes ==
  { <<<<0, 0>>, <<200, 0>>, <<0, 100>>, <<20, 20>>>>,  \* triangle, a point inside
    Rect(111, 111),      \* 0.01 degree by 0.01 degree
    Rect(50, 100), Rect(10, 100), Rect(7, 10), Rect(5, 10), Rect(4, 10),
    Rect(400, 500), Rect(500, 500) }

RefLats == {0, 56}

Lats(pts) == [i \in 1..Len(pts) |-> pts[i][1]]
Lons(pts) == [i \in 1..Len(pts) |-> pts[i][2]]

\* A merged port as merge_clusters appends it (lines 109-116).
MakePort(ref_lat, pts, scale) ==
  [ref_lat |-> ref_lat,
   center_lat |-> Mean(Lats(pts)),
   center_lon |-> Mean(Lons(pts)),
   points |-> pts,
   point_count |-> Len(pts),
   detected_scale |-> scale,
   dbscan_clusters |-> 1]

InputPorts ==
  {MakePort(r, pts, "major_ports") : r \in RefLats, pts \in HullShapes \cup DegenerateShapes}
  \cup {MakePort(r, <<<<0, 0>>, <<111, 111>>>>, "small_harbors") : r \in RefLats}

PortLists == UNION {[1..n -> InputPorts] : n \in 0..MaxPorts}

InitGeom ==
  /\ final_ports \in PortLists
  /\ ports_in = final_ports
  /\ geo_pc = "call"
  /\ pp_state = "merged"
  /\ all_scale_clusters = <<>>
  /\ raw_clusters = <<>>
  /\ dedup_runs = 0
  /\ pp_clusters = <<>>
  /\ ChunkIdle
  /\ RunIdle
  /\ CallIdle
  /\ MainIdle

\* processor.compute_area_and_categorize()
ComputeAreaAndCategorize ==
  /\ geo_pc = "call"
  /\ final_ports' = IF final_ports = <<>> THEN final_ports
                    ELSE compute_area_and_categorize(final_ports)
  /\ geo_pc' = "returned"
  /\ UNCHANGED <<ports_in, all_scale_clusters, raw_clusters, dedup_runs, pp_clusters,
                 pp_state>>
  /\ UNCHANGED <<chunkVars, runVars>>
  /\ UNCHANGED <<callVars, mainVars>>

NextGeom == ComputeAreaAndCategorize

SpecGeom == InitGeom /\ [][NextGeom]_vars

(***************************************************************************)
(* Calls of merge_clusters and compute_area_and_categorize on one          *)
(* PortPostProcessor, in any order.                                        *)
(* merge_clusters reads self.clusters and nothing else.  The one-meridian  *)
(* model of the merge decides whether the call raises and how many ports   *)
(* it builds; the (lat, lon) rows of these ports, which that model does    *)
(* not carry, are drawn from the shapes of the geometry pass and kept in   *)
(* footprints.                                                             *)
(***************************************************************************)
MaxCalls == 3          \* most calls made on one post-processor
MaxCallClusters == 2   \* longest cluster list handed to the constructor

CallClusters ==
  { MakeCluster(0, "major_ports", <<0>>, 1, 1),
    MakeCluster(0, "small_harbors", <<3>>, 1, 1),
    MakeCluster(0, "anchorage", <<0>>, 1, 1) }

CallClusterLists == UNION {[1..n -> CallClusters] : n \in 0..MaxCallClusters}

CallShapes ==
  { <<<<0, 0>>, <<111, 111>>>>,                    \* exactly 2 points
    <<<<0, 0>>, <<50, 50>>, <<100, 100>>>>,        \* 3 collinear points
    Rect(111, 111), Rect(50, 100), Rect(100, 50),  \* 1.0, 0.5 and 0.5 km2
    Rect(500, 500) }                               \* 25 km2

CallPorts == {MakePort(0, pts, "major_ports") : pts \in CallShapes}

CallPortLists == UNION {[1..n -> CallPorts] : n \in 0..MaxCallClusters}

\* The number of ports merge_clusters appends to merged (lines 92-116).
MergedCount(cl) ==
  LET r == merge_clusters(cl) IN IF r.raised THEN 0 ELSE Len(r.merged)

\* postproc = PortPostProcessor(raw_clusters), lines 22-24.
InitCalls ==
  /\ all_scale_clusters \in CallClusterLists
  /\ raw_clusters = <<>>
  /\ dedup_runs = 0
  /\ pp_clusters = all_scale_clusters
  /\ final_ports = <<>>
  /\ pp_state = "new"
  /\ calls = <<>>
  /\ call_ret = <<>>
  /\ footprints \in {ps \in CallPortLists : Len(ps) = MergedCount(pp_clusters)}
  /\ ChunkIdle
  /\ RunIdle
  /\ GeomIdle
  /\ MainIdle

\* merge_clusters returns without storing its list in self.final_ports.
merge_final_ports_not_stored(clusters, merged, old) == old

\* self.final_ports after merge_clusters returned: lines 34-35 and 119.
merge_final_ports(clusters, merged, old) ==
  IF clusters = <<>> THEN old ELSE merged

\* postproc.merge_clusters()
MergeCall ==
  /\ Len(calls) < MaxCalls
  /\ calls' = Append(calls, "merge")
  /\ IF merge_clusters(pp_clusters).raised
     THEN /\ call_ret' = <<>>
          /\ pp_state' = "KeyError"
          /\ UNCHANGED final_ports
     ELSE /\ call_ret' = IF pp_clusters = <<>> THEN <<>> ELSE footprints
          /\ pp_state' = "merged"
          /\ final_ports' = merge_final_ports(pp_clusters, footprints, final_ports)
  /\ UNCHANGED <<all_scale_clusters, raw_clusters, dedup_runs, pp_clusters, footprints>>
  /\ UNCHANGED <<chunkVars, runVars, geomVars, mainVars>>

\* postproc.compute_area_and_categorize()
ComputeCall ==
  /\ Len(calls) < MaxCalls
  /\ calls' = Append(calls, "compute")
  /\ IF final_ports = <<>>
     THEN call_ret' = <<>> /\ UNCHANGED final_ports
     ELSE /\ call_ret' = compute_area_and_categorize(final_ports)
          /\ final_ports' = call_ret'
  /\ UNCHANGED <<all_scale_clusters, raw_clusters, dedup_runs, pp_clusters, pp_state,
                 footprints>>
  /\ UNCHANGED <<chunkVars, runVars, geomVars, mainVars>>

NextCalls ==
  \/ MergeCall
  \/ ComputeCall

SpecCalls == InitCalls /\ [][NextCalls]_vars

(***************************************************************************)
(* main of src/src/cli.py: the stages of one run and the returns between   *)
(* them.  Preprocessing is not modelled beyond its result, a list of       *)
(* partitions; run_multiscale is the function of the partitions and the    *)
(* scale table that the pool specification executes task by task;          *)
(* the rows of the merged ports are drawn as for the call sequences.       *)
(* Visualisation and the report are steps that complete.  Exceptions that  *)
(* escape a stage are not modelled.                                        *)
(***************************************************************************)
MaxMainChunks == 1     \* most partitions preprocessing hands to main

MainChunkLists ==
  UNION {{[p \in 1..n |-> [chunk_id |-> p - 1, rows |-> f[p][1], fault |-> f[p][2]]] :
            f \in [1..n -> RunRows \X {"none", "read"}]} : n \in 0..MaxMainChunks}

MainShapes ==
  { <<<<0, 0>>, <<111, 111>>>>,       \* exactly 2 points
    Rect(111, 111), Rect(50, 100),    \* 1.0 and 0.5 km2
    Rect(500, 500) }                  \* 25 km2

MainPorts == {MakePort(0, pts, "major_ports") : pts \in MainShapes}

\* Lines 113-129 of clustering.py for one scale: the clusters of the
\* partitions from p on, in partition order.
RECURSIVE ScaleClustersFrom(_, _, _)
ScaleClustersFrom(chunks, cfg, p) ==
  IF p > Len(chunks) THEN <<>>
  ELSE cluster_one_chunk(chunks[p], cfg.key, cfg).clusters
         \o ScaleClustersFrom(chunks, cfg, p + 1)

\* Lines 101-129: the pool of all scales from position s on.
RECURSIVE PoolFrom(_, _, _)
PoolFrom(chunks, cfgs, s) ==
  IF s > Len(cfgs) THEN <<>>
  ELSE ScaleClustersFrom(chunks, cfgs[s], 1) \o PoolFrom(chunks, cfgs, s + 1)

InitMain ==
  /\ input_exists \in BOOLEAN
  /\ stages = <<>>
  /\ main_pc = "check_input"
  /\ configs \in ScaleTables
  /\ filtered_chunks = <<>>
  /\ n_cores = 1
  /\ scale_i = 1
  /\ task = <<>>
  /\ results = <<>>
  /\ task_runs = <<>>
  /\ finished = <<>>
  /\ run_pc = "idle"
  /\ all_scale_clusters = <<>>
  /\ SuppressIdle
  /\ ChunkIdle
  /\ GeomIdle
  /\ CallIdle

\* Lines 31-33: if not os.path.exists(config.AIS_INPUT_FILE): return
CheckInputReady == main_pc = "check_input"

CheckInput ==
  /\ CheckInputReady
  /\ main_pc' = IF input_exists THEN "preprocess" ELSE "no_input"
  /\ UNCHANGED <<input_exists, stages>>
  /\ UNCHANGED <<suppressVars, chunkVars, runVars, geomVars, callVars>>

\* Lines 41-46: filtered_chunks, total_stationary = preproc.run()
PreprocessReady == main_pc = "preprocess"

Preprocess ==
  /\ PreprocessReady
  /\ \E fc \in MainChunkLists :
       /\ filtered_chunks' = fc
       /\ main_pc' = IF fc = <<>> THEN "no_chunks" ELSE "cluster"
  /\ stages' = Append(stages, "preprocessing")
  /\ UNCHANGED <<configs, n_cores, scale_i, task, results, task_runs, finished, run_pc>>
  /\ UNCHANGED input_exists
  /\ UNCHANGED <<suppressVars, chunkVars, geomVars, callVars>>

\* Lines 49-54: raw_clusters = clusterer.run_multiscale()
ClusterReady == main_pc = "cluster"

Cluster ==
  /\ ClusterReady
  /\ LET pool == PoolFrom(filtered_chunks, configs, 1)
         kept == deduplicate_clusters(pool)
     IN  /\ all_scale_clusters' = pool
         /\ raw_clusters' = kept
         /\ main_pc' = IF kept = <<>> THEN "no_clusters" ELSE "merge"
  /\ dedup_runs' = 1
  /\ stages' = Append(stages, "clustering")
  /\ UNCHANGED <<pp_clusters, final_ports, pp_state, input_exists>>
  /\ UNCHANGED <<chunkVars, runVars, geomVars, callVars>>

\* Lines 57-58: postproc = PortPostProcessor(raw_clusters);
\* merged_ports = postproc.merge_clusters()
MergeReady == main_pc = "merge"

Merge ==
  /\ MergeReady
  /\ pp_clusters' = raw_clusters
  /\ IF merge_clusters(raw_clusters).raised
     THEN /\ pp_state' = "KeyError"
          /\ main_pc' = "KeyError"
          /\ UNCHANGED <<final_ports, footprints>>
     ELSE /\ pp_state' = "merged"
          /\ main_pc' = "geometry"
          /\ \E merged \in [1..MergedCount(raw_clusters) -> MainPorts] :
               /\ footprints' = merged
               /\ final_ports' = merge_final_ports(raw_clusters, merged, <<>>)
  /\ stages' = Append(stages, "merge")
  /\ calls' = Append(calls, "merge")
  /\ UNCHANGED <<all_scale_clusters, raw_clusters, dedup_runs, call_ret, input_exists>>
  /\ UNCHANGED <<chunkVars, runVars, geomVars>>

\* The geometry pass returned [] and main goes on to the visualisation.
after_geometry_unchecked(ports) == "visualise"

\* Lines 61-63: if not final_ports: return
after_geometry(ports) == IF ports = <<>> THEN "no_ports" ELSE "visualise"

\* Line 59: final_ports = postproc.compute_area_and_categorize()
GeometryReady == main_pc = "geometry"

Geometry ==
  /\ GeometryReady
  /\ LET out == IF final_ports = <<>> THEN <<>>
                ELSE compute_area_and_categorize(final_ports)
     IN  /\ final_ports' = out
         /\ call_ret' = out
         /\ main_pc' = after_geometry(out)
  /\ stages' = Append(stages, "geometry")
  /\ calls' = Append(calls, "compute")
  /\ UNCHANGED <<all_scale_clusters, raw_clusters, dedup_runs, pp_clusters, pp_state,
                 footprints, input_exists>>
  /\ UNCHANGED <<chunkVars, runVars, geomVars>>

\* Lines 66-68: Visualiser(final_ports), plot_summary, make_interactive_map
VisualiseReady == main_pc = "visualise"

Visualise ==
  /\ VisualiseReady
  /\ main_pc' = "report"
  /\ stages' = Append(stages, "visualisation")
  /\ UNCHANGED input_exists
  /\ UNCHANGED <<suppressVars, chunkVars, runVars, geomVars, callVars>>

\* Lines 71-74: ReportGenerator(final_ports, total_stationary).write_report()
ReportReady == main_pc = "report"

Report ==
  /\ ReportReady
  /\ main_pc' = "done"
  /\ stages' = Append(stages, "report")
  /\ UNCHANGED input_exists
  /\ UNCHANGED <<suppressVars, chunkVars, runVars, geomVars, callVars>>

NextMain ==
  \/ CheckInput
  \/ Preprocess
  \/ Cluster
  \/ Merge
  \/ Geometry
  \/ Visualise
  \/ Report

SpecMain == InitMain /\ [][NextMain]_vars

\* main is at a statement that has an action above.  Each action is enabled
\* exactly when its guard holds: what it chooses from is never empty.
MainCanStep ==
  \/ CheckInputReady
  \/ PreprocessReady
  \/ ClusterReady
  \/ MergeReady
  \/ GeometryReady
  \/ VisualiseReady
  \/ ReportReady

MainPositions ==
  {"check_input", "preprocess", "cluster", "merge", "geometry", "visualise", "report",
   "no_input", "no_chunks", "no_clusters", "no_ports", "done", "KeyError"}

\* main leaves the statement it is at.
MainAdvances ==
  /\ MainCanStep
  /\ \E pc \in MainPositions \ {main_pc} : main_pc' = pc

\* main runs on one thread and waits for nothing: while it is at a
\* statement, it moves on.
SpecMainFair == SpecMain /\ WF_main_pc(MainAdvances)

(***************************************************************************)
(* Claims about the suppression passes.  The helpers of this section are   *)
(* written from the claims' words, not from the walks above.               *)
(***************************************************************************)
Range(s) == {s[i] : i \in DOMAIN s}

RECURSIVE SumOver(_, _)
SumOver(S, f) ==
  IF S = {} THEN 0
  ELSE LET x == CHOOSE y \in S : TRUE IN f[x] + SumOver(S \ {x}, f)

\* priority_rank of the ranking key: major 0 .. small_harbors 3, 99 otherwise.
PriorityRank(scale) ==
  CASE scale = "major_ports" -> 0
    [] scale = "regional_ports" -> 1
    [] scale = "local_ports" -> 2
    [] scale = "small_harbors" -> 3
    [] OTHER -> 99

\* Record z of list cl is visited before record a in priority order.
VisitedBefore(cl, z, a) ==
  LET rz == PriorityRank(cl[z].scale)
      ra == PriorityRank(cl[a].scale)
  IN  \/ rz < ra
      \/ rz = ra /\ cl[z].point_count > cl[a].point_count
      \/ rz = ra /\ cl[z].point_count = cl[a].point_count /\ z < a

\* The centre of cl[b] is within the suppression radius 1.5 * eps_km of cl[a].
Reaches(cl, a, b) ==
  WithinRadius(cl[a].center_lat, cl[b].center_lat, 3 * cl[a].eps_km)

\* C1: in the output of dedup-mode suppression, no two survivors have a
\* centroid distance less than the suppression radius 1.5 * eps_km of the one
\* processed earlier (the output is in processing order).
C1_DedupNoOverlap ==
  dedup_runs >= 1 =>
    \A i, j \in 1..Len(raw_clusters) :
      i < j => ~StrictlyInside(raw_clusters[i].center_lat,
                               raw_clusters[j].center_lat,
                               3 * raw_clusters[i].eps_km)

\* C1's case: dedup dropped a record and kept at least two.
C1_Witness ==
  /\ dedup_runs = 1
  /\ Len(raw_clusters) >= 2
  /\ Len(raw_clusters) < Len(all_scale_clusters)

\* The precondition of C2 for records a and b of the list handed to dedup.
C2_Case(a, b) ==
  /\ PriorityRank(all_scale_clusters[a].scale) < PriorityRank(all_scale_clusters[b].scale)
  /\ Reaches(all_scale_clusters, a, b)
  /\ \A z \in 1..Len(all_scale_clusters) :
       VisitedBefore(all_scale_clusters, z, a) => ~Reaches(all_scale_clusters, z, a)

\* C2: priority beats count.  When A has a strictly lower priority rank than
\* B, B's centre is within 1.5 * A.eps_km of A's centre and A is within the
\* suppression radius of no record visited before it, dedup keeps A and
\* discards B, whatever their point counts.
C2_PriorityBeatsCount ==
  dedup_runs >= 1 =>
    \A a, b \in 1..Len(all_scale_clusters) :
      C2_Case(a, b) =>
        /\ all_scale_clusters[a] \in Range(raw_clusters)
        /\ all_scale_clusters[b] \notin Range(raw_clusters)

\* C2's case: B has more points than A, and a record is visited before A.
C2_Witness ==
  /\ dedup_runs = 1
  /\ \E a, b, z \in 1..Len(all_scale_clusters) :
       /\ C2_Case(a, b)
       /\ all_scale_clusters[b].point_count > all_scale_clusters[a].point_count
       /\ VisitedBefore(all_scale_clusters, z, a)

\* The post-processor was built over the output of dedup and has merged.
MergedOverDedup ==
  dedup_runs = 1 /\ pp_state = "merged" /\ pp_clusters = raw_clusters

\* C3: after the merge pass over a dedup-mode output, no two emitted ports
\* are within 1.5 * eps_km of the seed (winning) cluster of the port emitted
\* earlier.  Stated as "the distance of the emitted centroids is not less
\* than that radius", which the claim's "exceeds" implies, so that a
\* violation never rests on a distance that equals the radius.
C3_MergedPortsApart ==
  MergedOverDedup =>
    LET groups == MergeGroups(pp_clusters) IN
    \A i, j \in 1..Len(final_ports) :
      i < j => ~StrictlyInside(final_ports[i].center_lat,
                               final_ports[j].center_lat,
                               3 * pp_clusters[groups[i].seed].eps_km)

\* C4: in merge mode every emitted port has point_count equal to the sum of
\* point_count over the input clusters unioned into it, dbscan_clusters equal
\* to their number (at least 1), and as many member points as they have
\* together.
C4_MergeConservation ==
  pp_state = "merged" =>
    LET groups == MergeGroups(pp_clusters)
        count == [i \in 1..Len(pp_clusters) |-> pp_clusters[i].point_count]
        members == [i \in 1..Len(pp_clusters) |-> Len(pp_clusters[i].points)]
    IN  /\ Len(final_ports) = Len(groups)
        /\ \A k \in 1..Len(final_ports) :
             /\ final_ports[k].point_count = SumOver(groups[k].neighbors, count)
             /\ final_ports[k].dbscan_clusters = Cardinality(groups[k].neighbors)
             /\ final_ports[k].dbscan_clusters >= 1
             /\ Len(final_ports[k].points) = SumOver(groups[k].neighbors, members)

\* C4's case: a port that absorbed a neighbour, beside another port.
C4_Witness ==
  /\ pp_state = "merged"
  /\ Len(final_ports) >= 2
  /\ \E k \in 1..Len(final_ports) : final_ports[k].dbscan_clusters >= 2

\* C5: dedup-mode suppression is idempotent: run over its own output it
\* returns the same survivors in the same order.
C5_DedupIdempotent ==
  [][dedup_runs = 1 /\ dedup_runs' = 2 => raw_clusters' = raw_clusters]_vars

\* C5's case: the second run happened over an output of several survivors of
\* a first run that consumed a record.
C5_Witness ==
  /\ dedup_runs = 2
  /\ Len(raw_clusters) >= 2
  /\ Len(raw_clusters) < Len(all_scale_clusters)

\* C6: no suppression pass ends in an error for a list that holds a cluster
\* whose scale key is in no priority table.
C6_UnknownScaleRecovered ==
  (\E i \in 1..Len(pp_clusters) : pp_clusters[i].scale \notin DOMAIN scale_priority)
    => pp_state # "KeyError"


(***************************************************************************)
(* Claims about run_multiscale.                                            *)
(***************************************************************************)
\* The task of chunk ci at scale cfg raises: its file cannot be read, or it
\* passes the min_samples gate and its file lacks the coordinate columns.
TaskRaises(ci, cfg) ==
  \/ ci.fault = "read"
  \/ ci.fault = "columns" /\ Len(ci.rows) >= cfg.min_samples

\* The entries of the pool that carry scale key and chunk id, in pool order.
RECURSIVE PoolOf(_, _, _, _)
PoolOf(pool, n, key, chunk_id) ==
  IF n = 0 THEN <<>>
  ELSE PoolOf(pool, n - 1, key, chunk_id)
       \o (IF pool[n].scale = key /\ pool[n].chunk_id = chunk_id
           THEN <<pool[n]>> ELSE <<>>)

\* Some step of run_multiscale can be taken: the guard of one of its actions
\* holds (their assignments can always be made).
RunCanStep ==
  \/ StartScaleReady
  \/ \E p \in 1..Len(filtered_chunks) : TaskStartReady(p) \/ TaskFinishReady(p)
  \/ JoinScaleReady
  \/ RunDeduplicateReady

\* C7: task-failure isolation.  A task that raises contributes an empty
\* result and is not retried (no task is started twice), the run is never
\* aborted and, until it is done, can always take its next step, and the pool
\* of a finished run holds nothing of a task that raised and, for every other
\* task, exactly the clusters that task returned.
C7_TaskFailureIsolated ==
  /\ run_pc # "aborted"
  /\ run_pc # "done" => RunCanStep
  /\ \A s \in 1..Len(configs), p \in 1..Len(filtered_chunks) :
       /\ task_runs[s][p] <= 1
       /\ run_pc = "done" =>
            /\ task_runs[s][p] = 1
            /\ PoolOf(all_scale_clusters, Len(all_scale_clusters),
                      configs[s].key, filtered_chunks[p].chunk_id)
                 = IF TaskRaises(filtered_chunks[p], configs[s]) THEN <<>>
                   ELSE cluster_one_chunk(filtered_chunks[p], configs[s].key,
                                          configs[s]).clusters

\* C7's case: the run is done, a task raised, another returned clusters.
C7_Witness ==
  /\ run_pc = "done"
  /\ \E s \in 1..Len(configs), p, q \in 1..Len(filtered_chunks) :
       /\ TaskRaises(filtered_chunks[p], configs[s])
       /\ p # q
       /\ ~TaskRaises(filtered_chunks[q], configs[s])
       /\ PoolOf(all_scale_clusters, Len(all_scale_clusters),
                 configs[s].key, filtered_chunks[q].chunk_id) # <<>>

\* The pool of a run that clusters the partitions one after the other: scale
\* by scale in table order, partition by partition in list order, the
\* clusters of a partition in label order.
RECURSIVE SequentialPool(_, _)
SequentialPool(s, p) ==
  IF s > Len(configs) THEN <<>>
  ELSE IF p > Len(filtered_chunks) THEN SequentialPool(s + 1, 1)
  ELSE cluster_one_chunk(filtered_chunks[p], configs[s].key, configs[s]).clusters
       \o SequentialPool(s, p + 1)

\* C8: whatever the interleaving and completion order of the worker tasks,
\* the pool handed to dedup is grouped by scale in table order, then by
\* partition in list order, then by cluster label, and so the dedup result
\* is the one of the sequential run.
C8_PoolOrderDeterministic ==
  run_pc = "done" =>
    /\ all_scale_clusters = SequentialPool(1, 1)
    /\ raw_clusters = deduplicate_clusters(SequentialPool(1, 1))

\* C8's case: a later partition's task finished before an earlier one's at
\* the same scale, and both returned clusters.
C8_Witness ==
  /\ run_pc = "done"
  /\ \E i, j \in 1..Len(finished) :
       /\ i < j
       /\ finished[i][1] = finished[j][1]
       /\ finished[i][2] > finished[j][2]
       /\ \A k \in {i, j} :
            cluster_one_chunk(filtered_chunks[finished[k][2]],
                              configs[finished[k][1]].key,
                              configs[finished[k][1]]).clusters # <<>>

(***************************************************************************)
(* Claims about _cluster_one_chunk.                                        *)
(***************************************************************************)
\* C9: the min_samples gate.  A chunk that can be read and has fewer rows
\* than min_samples yields zero clusters without an error, and a chunk of
\* exactly min_samples rows is not rejected by the gate: it is clustered.
C9_MinSamplesGate ==
  chunk_pc \notin {"idle", "call"} =>
    LET n == Len(chunk_info.rows)
        ms == scale_config.min_samples
    IN  /\ (chunk_info.fault # "read" /\ n < ms)
             => chunk_pc = "too_few" /\ chunk_result = <<>>
        /\ (chunk_info.fault # "read" /\ n = ms) => chunk_pc # "too_few"
        /\ (chunk_info.fault = "none" /\ n = ms)
             => chunk_pc = "clustered" /\ Len(labels) = n

\* C9's case: the call returned at the gate for a chunk one row short.
C9_Witness ==
  /\ chunk_pc = "too_few"
  /\ Len(chunk_info.rows) >= 1
  /\ Len(chunk_info.rows) = scale_config.min_samples - 1

\* Row i of the chunk is a core point at the scale of the call.
IsCoreRow(i) ==
  Cardinality({j \in 1..Len(chunk_info.rows) :
                 Abs(chunk_info.rows[i] - chunk_info.rows[j]) <= scale_config.eps_km})
    >= scale_config.min_samples

\* The rows of the k-th emitted cluster (label k - 1).
MemberRows(k) == {i \in 1..Len(labels) : labels[i] = k - 1}

\* The rows within eps of a core point of the k-th cluster that an earlier
\* cluster claimed.
ClaimedEarlier(k) ==
  {j \in 1..Len(labels) :
     /\ labels[j] \in 0..(k - 2)
     /\ \E i \in MemberRows(k) :
          /\ IsCoreRow(i)
          /\ Abs(chunk_info.rows[i] - chunk_info.rows[j]) <= scale_config.eps_km}

\* C10 as claimed: every emitted cluster has point_count equal to its number
\* of member points and at least min_samples of its scale.
C10_AtLeastMinSamples ==
  chunk_pc = "clustered" =>
    \A k \in 1..Len(chunk_result) :
      /\ chunk_result[k].point_count = Len(chunk_result[k].points)
      /\ chunk_result[k].point_count >= scale_config.min_samples

\* C10 as amended: every emitted cluster has point_count equal to its number
\* of member points, at least 1, and holds a core point; the first cluster
\* has at least min_samples points, and a later one has at least min_samples
\* points when the border points within eps of its core points that an
\* earlier cluster claimed are counted with it.
C10_SizeWithClaimedBorders ==
  chunk_pc = "clustered" =>
    \A k \in 1..Len(chunk_result) :
      /\ chunk_result[k].point_count = Len(chunk_result[k].points)
      /\ chunk_result[k].point_count = Cardinality(MemberRows(k))
      /\ chunk_result[k].point_count >= 1
      /\ \E i \in MemberRows(k) : IsCoreRow(i)
      /\ k = 1 => chunk_result[k].point_count >= scale_config.min_samples
      /\ chunk_result[k].point_count + Cardinality(ClaimedEarlier(k))
           >= scale_config.min_samples

\* C10's case: a cluster with fewer than min_samples points was emitted.
C10_Witness ==
  /\ chunk_pc = "clustered"
  /\ \E k \in 1..Len(chunk_result) :
       chunk_result[k].point_count < scale_config.min_samples

(***************************************************************************)
(* Claims about compute_area_and_categorize.                               *)
(***************************************************************************)
\* The area the geometry pass computes for a merged port whose hull exists.
ComputedArea(port) == AreaKm2(port.ref_lat, HullVertices(port.points))

\* The fields of an output port that it has from its merged port.
MergedFields(p) ==
  [ref_lat |-> p.ref_lat, center_lat |-> p.center_lat, center_lon |-> p.center_lon,
   points |-> p.points, point_count |-> p.point_count,
   detected_scale |-> p.detected_scale, dbscan_clusters |-> p.dbscan_clusters]

\* The list without the ports at the positions of dropped, in its order.
Without(ports, dropped) ==
  LET keep == SetToSeq((1..Len(ports)) \ dropped)
  IN  [k \in 1..Len(keep) |-> ports[keep[k]]]

\* C11: every port of the returned list has MIN_PORT_AREA_KM2 <= area_km2 <=
\* MAX_PORT_AREA_KM2, area_km2 being the area computed from its points; a
\* merged port whose computed area is outside the interval is not in the
\* list, whatever its category.
C11_GlobalAreaBound ==
  geo_pc = "returned" =>
    /\ \A k \in 1..Len(final_ports) :
         /\ final_ports[k].area_km2 = ComputedArea(final_ports[k])
         /\ MIN_PORT_AREA_KM2 <= final_ports[k].area_km2
         /\ final_ports[k].area_km2 <= MAX_PORT_AREA_KM2
    /\ \A i \in 1..Len(ports_in) :
         (/\ ~QhullError(ports_in[i].points)
          /\ \/ ComputedArea(ports_in[i]) < MIN_PORT_AREA_KM2
             \/ ComputedArea(ports_in[i]) > MAX_PORT_AREA_KM2)
           => \A k \in 1..Len(final_ports) : MergedFields(final_ports[k]) # ports_in[i]

\* C11's case: a port above the upper bound was dropped and a port whose
\* area is exactly a bound was kept.
C11_Witness ==
  /\ geo_pc = "returned"
  /\ \E i \in 1..Len(ports_in) :
       ~QhullError(ports_in[i].points) /\ ComputedArea(ports_in[i]) > MAX_PORT_AREA_KM2
  /\ \E k \in 1..Len(final_ports) :
       final_ports[k].area_km2 \in {MIN_PORT_AREA_KM2, MAX_PORT_AREA_KM2}

\* C12: the returned list is non-increasing in area_km2.
C12_NonIncreasingArea ==
  geo_pc = "returned" =>
    \A k \in 1..(Len(final_ports) - 1) :
      final_ports[k].area_km2 >= final_ports[k + 1].area_km2

\* C12's case: two ports were kept that the merge pass emitted in ascending
\* order of area.
C12_Witness ==
  /\ geo_pc = "returned"
  /\ Len(final_ports) = 2
  /\ Len(ports_in) = 2
  /\ ComputedArea(ports_in[1]) < ComputedArea(ports_in[2])

\* C13: a merged port with fewer than 3 member points is not in the
\* returned list, whatever its other fields, and the list is the one
\* returned for the input without the ports of fewer than 3 points.
C13_TooFewPointsDropped ==
  geo_pc = "returned" =>
    /\ \A k \in 1..Len(final_ports) : Len(final_ports[k].points) >= 3
    /\ final_ports = compute_area_and_categorize(
                       Without(ports_in, {i \in 1..Len(ports_in) :
                                            Len(ports_in[i].points) < 3}))

\* C13's case: a port of exactly 2 points came first, and the port after it
\* was kept.
C13_Witness ==
  /\ geo_pc = "returned"
  /\ Len(ports_in) = 2
  /\ Len(ports_in[1].points) = 2
  /\ Len(final_ports) = 1

\* The buckets, by position in the table, whose inclusive bounds hold area.
MatchingBuckets(area) ==
  {j \in 1..Len(PORT_SIZE_CATEGORIES) :
     PORT_SIZE_CATEGORIES[j].min <= area /\ area <= PORT_SIZE_CATEGORIES[j].max}

\* C14: a port gets the first bucket in declared order whose inclusive
\* bounds contain its area, so the earlier bucket at a shared bound, and
\* "Uncategorized" when none matches; its color is its category's color.
C14_FirstMatchingBucket ==
  geo_pc = "returned" =>
    \A k \in 1..Len(final_ports) :
      LET p == final_ports[k]
          hits == MatchingBuckets(p.area_km2)
      IN  /\ hits # {} =>
                \E j \in hits :
                  /\ \A i \in hits : j <= i
                  /\ p.category = PORT_SIZE_CATEGORIES[j].name
          /\ hits = {} => p.category = "Uncategorized"
          /\ \E j \in 1..Len(PORT_SIZE_CATEGORIES) :
               /\ PORT_SIZE_CATEGORIES[j].name = p.category
               /\ PORT_SIZE_CATEGORIES[j].color = p.color

\* C14's case: one port has an area equal to a bound shared by two buckets,
\* another an area no bucket contains.
C14_Witness ==
  /\ geo_pc = "returned"
  /\ \E k \in 1..Len(final_ports) : Cardinality(MatchingBuckets(final_ports[k].area_km2)) = 2
  /\ \E k \in 1..Len(final_ports) : MatchingBuckets(final_ports[k].area_km2) = {}

\* The hull of the port cannot be computed although it has 3 rows or more.
GeometryFails(p) == Len(p.points) >= 3 /\ QhullError(p.points)

\* C15: when the hull computation fails for a merged port, the call still
\* returns, and what it returns is the list it returns for the input without
\* the failing ports.
C15_GeometryFailureIsolated ==
  geo_pc = "returned" =>
    /\ \A k \in 1..Len(final_ports) : ~GeometryFails(final_ports[k])
    /\ final_ports = compute_area_and_categorize(
                       Without(ports_in, {i \in 1..Len(ports_in) :
                                            GeometryFails(ports_in[i])}))

\* C15's case: the hull of the first port failed and the port after it was
\* kept.
C15_Witness ==
  /\ geo_pc = "returned"
  /\ Len(ports_in) = 2
  /\ GeometryFails(ports_in[1])
  /\ Len(final_ports) = 1

\* The hull of the port spans 0.01 degree by 0.01 degree at 56 degrees.
C17_Case(p) ==
  /\ ~QhullError(p.points)
  /\ Ptp(HullVertices(p.points), 1) = 111
  /\ Ptp(HullVertices(p.points), 2) = 111
  /\ AvgLatDegree(p.ref_lat, HullVertices(p.points)) = 56

\* C17: a merged port whose hull spans 0.01 degree of latitude and of
\* longitude at mean latitude 56 degrees is in the returned list with
\* area_km2 = 0.01 * (0.01 * cos 56) * 111 * 111, which is 111 * 111 * 559
\* units of 10^-7 km2 (0.6887 km2), and category Regional.
C17_AreaFormula ==
  geo_pc = "returned" =>
    \A i \in 1..Len(ports_in) :
      C17_Case(ports_in[i]) =>
        \E k \in 1..Len(final_ports) :
          /\ MergedFields(final_ports[k]) = ports_in[i]
          /\ final_ports[k].area_km2 = 111 * 111 * 559
          /\ final_ports[k].category = "Regional"
          /\ final_ports[k].color = "orange"

\* C17's case: such a port went through the call.
C17_Witness ==
  /\ geo_pc = "returned"
  /\ \E i \in 1..Len(ports_in) : C17_Case(ports_in[i])

(***************************************************************************)
(* More claims about the suppression passes.                               *)
(***************************************************************************)
\* C16: merge_clusters merges any two input clusters whose centres lie
\* within 1.5 * max(eps_km of either): some emitted port's merge group holds
\* both.  Stated for the pairs strictly inside that radius, which the claim
\* covers, so that a violation never rests on a distance equal to the radius.
C16_ClosePairsMerged ==
  pp_state = "merged" =>
    LET groups == MergeGroups(pp_clusters) IN
    \A a, b \in 1..Len(pp_clusters) :
      (/\ a # b
       /\ \/ StrictlyInside(pp_clusters[a].center_lat, pp_clusters[b].center_lat,
                            3 * pp_clusters[a].eps_km)
          \/ StrictlyInside(pp_clusters[a].center_lat, pp_clusters[b].center_lat,
                            3 * pp_clusters[b].eps_km))
        => \E k \in 1..Len(groups) : {a, b} \subseteq groups[k].neighbors

\* Position s of list cl comes at or before position t in ascending order of
\* the ranking key (priority_rank(scale), -point_count, insertion index).
RankedBefore(cl, s, t) == s = t \/ VisitedBefore(cl, s, t)

\* C18: both passes emit in ascending order of the ranking key
\* (priority_rank(scale), -point_count), ties in insertion order: the
\* survivors of dedup and the seeds of the merged ports are a subsequence of
\* the sorted order, and the first emitted is the highest-ranked record of
\* the input.
C18_EmissionInRankOrder ==
  /\ dedup_runs = 1 =>
       LET cl == all_scale_clusters
           s == DedupSurvivors(cl)
       IN  /\ Len(raw_clusters) = Len(s)
           /\ \A k \in 1..Len(s) : raw_clusters[k] = cl[s[k]]
           /\ \A i, j \in 1..Len(s) : i < j => VisitedBefore(cl, s[i], s[j])
           /\ cl # <<>> => /\ Len(s) >= 1
                           /\ \A t \in 1..Len(cl) : RankedBefore(cl, s[1], t)
  /\ pp_state = "merged" =>
       LET cl == pp_clusters
           g == MergeGroups(cl)
       IN  /\ Len(final_ports) = Len(g)
           /\ \A k \in 1..Len(g) : final_ports[k] = MergedPort(cl, g[k])
           /\ \A i, j \in 1..Len(g) : i < j => VisitedBefore(cl, g[i].seed, g[j].seed)
           /\ cl # <<>> => /\ Len(g) >= 1
                           /\ \A t \in 1..Len(cl) : RankedBefore(cl, g[1].seed, t)

\* C18's case: dedup and merge have run, each emitted at least two records,
\* and the first survivor of dedup was not the first record inserted.
C18_Witness ==
  /\ dedup_runs = 1
  /\ pp_state = "merged"
  /\ Len(raw_clusters) >= 2
  /\ Len(final_ports) >= 2
  /\ DedupSurvivors(all_scale_clusters)[1] # 1

\* C20: detected_scale of every merged port is the scale key of the cluster
\* with the best ranking key (lowest priority rank, then largest
\* point_count) among the clusters unioned into the port.
C20_DetectedScaleIsBestRanked ==
  pp_state = "merged" =>
    LET cl == pp_clusters
        g == MergeGroups(cl)
    IN  \A k \in 1..Len(final_ports) :
          \E m \in g[k].neighbors :
            /\ final_ports[k].detected_scale = cl[m].scale
            /\ \A n \in g[k].neighbors :
                 \/ PriorityRank(cl[m].scale) < PriorityRank(cl[n].scale)
                 \/ /\ PriorityRank(cl[m].scale) = PriorityRank(cl[n].scale)
                    /\ cl[m].point_count >= cl[n].point_count

\* C20's case: a port unions clusters of two scales, and the one of the
\* better scale has fewer points.
C20_Witness ==
  /\ pp_state = "merged"
  /\ LET cl == pp_clusters
         g == MergeGroups(cl)
     IN  \E k \in 1..Len(final_ports) : \E m, n \in g[k].neighbors :
           /\ PriorityRank(cl[m].scale) < PriorityRank(cl[n].scale)
           /\ cl[m].point_count < cl[n].point_count

(***************************************************************************)
(* The join barrier of run_multiscale.                                     *)
(***************************************************************************)
\* Every task of the scale at position s has completed.
ScaleCompleted(s) ==
  \A p \in 1..Len(filtered_chunks) : \E i \in 1..Len(finished) : finished[i] = <<s, p>>

\* C19: no task of a later scale has started, and no cluster of a scale is
\* in the candidate pool, before every task of that scale (and of the scales
\* before it) has completed; dedup runs at most once, only with the run done,
\* and only after the tasks of all scales have completed.
C19_JoinBarrier ==
  /\ \A s \in 1..Len(configs) :
       /\ (\E p \in 1..Len(filtered_chunks) : task_runs[s][p] >= 1)
            => \A r \in 1..(s - 1) : ScaleCompleted(r)
       /\ (\E i \in 1..Len(all_scale_clusters) : all_scale_clusters[i].scale = configs[s].key)
            => ScaleCompleted(s)
  /\ dedup_runs <= 1
  /\ dedup_runs = 1 <=> run_pc = "done"
  /\ dedup_runs = 1 => \A s \in 1..Len(configs) : ScaleCompleted(s)

\* C19's case: a run over two partitions with two workers is done, and the
\* pool holds clusters of both scales.
C19_Witness ==
  /\ run_pc = "done"
  /\ dedup_runs = 1
  /\ n_cores = 2
  /\ Len(filtered_chunks) = 2
  /\ \A s \in 1..Len(configs) :
       \E i \in 1..Len(all_scale_clusters) : all_scale_clusters[i].scale = configs[s].key

\* C21: merge exclusivity.  Each input cluster is unioned into exactly one
\* emitted port, so the point_count fields of the ports sum to those of the
\* inputs and the dbscan_clusters fields sum to the number of inputs.
C21_MergeExclusive ==
  pp_state = "merged" =>
    LET cl == pp_clusters
        g == MergeGroups(cl)
        port_count == [k \in 1..Len(final_ports) |-> final_ports[k].point_count]
        port_clusters == [k \in 1..Len(final_ports) |-> final_ports[k].dbscan_clusters]
        count == [i \in 1..Len(cl) |-> cl[i].point_count]
    IN  /\ \A i \in 1..Len(cl) :
             Cardinality({k \in 1..Len(g) : i \in g[k].neighbors}) = 1
        /\ SumOver(1..Len(final_ports), port_count) = SumOver(1..Len(cl), count)
        /\ SumOver(1..Len(final_ports), port_clusters) = Len(cl)

\* C22: with the shipped scale table, the merge pass over a dedup-mode
\* output absorbs nothing: it emits one port per candidate, in the same
\* order, each with dbscan_clusters = 1 and the candidate's own points,
\* point_count, centroid and scale.
C22_MergeAfterDedupAbsorbsNothing ==
  (dedup_runs = 1 /\ pp_clusters = raw_clusters /\ pp_state \in {"merged", "KeyError"}) =>
    /\ pp_state = "merged"
    /\ Len(final_ports) = Len(raw_clusters)
    /\ \A k \in 1..Len(final_ports) :
         /\ final_ports[k].dbscan_clusters = 1
         /\ final_ports[k].points = raw_clusters[k].points
         /\ final_ports[k].point_count = raw_clusters[k].point_count
         /\ final_ports[k].center_lat = raw_clusters[k].center_lat
         /\ final_ports[k].detected_scale = raw_clusters[k].scale

\* C22's case: dedup discarded a record and kept survivors of two scales,
\* and the merge pass ran over them.
C22_Witness ==
  /\ dedup_runs = 1
  /\ pp_clusters = raw_clusters
  /\ pp_state = "merged"
  /\ Len(raw_clusters) < Len(all_scale_clusters)
  /\ \E i, j \in 1..Len(raw_clusters) : raw_clusters[i].scale # raw_clusters[j].scale

\* C23: dedup coverage.  Every survivor is an input record emitted
\* unchanged; every discarded record is within 1.5 * eps_km of a survivor
\* that precedes it in the sorted order, measured with that survivor's
\* eps_km; and a record that no preceding survivor reaches survives, whatever
\* the radii of the records ranked after it.
C23_DedupCoverage ==
  dedup_runs = 1 =>
    LET cl == all_scale_clusters
        s == DedupSurvivors(cl)
        kept == {s[k] : k \in 1..Len(s)}
        covered(d) == \E a \in kept : VisitedBefore(cl, a, d) /\ Reaches(cl, a, d)
    IN  /\ Len(raw_clusters) = Len(s)
        /\ \A k \in 1..Len(s) : s[k] \in 1..Len(cl) /\ raw_clusters[k] = cl[s[k]]
        /\ \A i, j \in 1..Len(s) : i # j => s[i] # s[j]
        /\ \A d \in 1..Len(cl) : d \notin kept <=> covered(d)

\* C23's case: dedup discarded a record, and kept a record that lies inside
\* the radius of a record ranked after it but outside the radii of the
\* survivors before it.
C23_Witness ==
  /\ dedup_runs = 1
  /\ Len(raw_clusters) < Len(all_scale_clusters)
  /\ LET cl == all_scale_clusters
         s == DedupSurvivors(cl)
     IN  \E k \in 1..Len(s) : \E b \in 1..Len(cl) :
           /\ VisitedBefore(cl, s[k], b)
           /\ Reaches(cl, b, s[k])
           /\ ~Reaches(cl, s[k], b)

\* C24: with the shipped category table and area bounds (areas in units of
\* 10^-7 km2), a port of the final list is "Uncategorized" exactly when its
\* area is in [0.005, 0.01) or in (15, 20] km2; every other port has one of
\* the four named categories; an area of exactly 2.0, 0.5 or 0.1 km2 gets
\* "Major Commercial", "Regional" and "Local/Industrial".
C24_ShippedCategories ==
  geo_pc = "returned" =>
    \A k \in 1..Len(final_ports) :
      LET a == final_ports[k].area_km2
          c == final_ports[k].category
      IN  /\ c = "Uncategorized" <=>
               \/ 50000 <= a /\ a < 100000
               \/ 150000000 < a /\ a <= 200000000
          /\ c # "Uncategorized" =>
               c \in {"Major Commercial", "Regional", "Local/Industrial", "Small Harbor"}
          /\ a = 20000000 => c = "Major Commercial"
          /\ a = 5000000 => c = "Regional"
          /\ a = 1000000 => c = "Local/Industrial"

\* C24's case: the final list holds a port of more than 15 km2 and a port
\* whose area is exactly 2.0, 0.5 or 0.1 km2.
C24_Witness ==
  /\ geo_pc = "returned"
  /\ \E k \in 1..Len(final_ports) : final_ports[k].area_km2 > 150000000
  /\ \E k \in 1..Len(final_ports) : final_ports[k].area_km2 \in {20000000, 5000000, 1000000}

\* The list one merge_clusters call followed by one
\* compute_area_and_categorize call returns.
MergeThenCompute ==
  IF footprints = <<>> THEN <<>> ELSE compute_area_and_categorize(footprints)

\* A merge_clusters call among the first n calls returned.
MergeReturnedWithin(n) ==
  \E i \in 1..n : calls[i] = "merge" /\ ~merge_clusters(all_scale_clusters).raised

\* C25: over any sequence of calls on one post-processor, the cluster list
\* it was built with stays as it was; a compute_area_and_categorize call
\* with no merge_clusters call before it returns the empty list; each
\* merge_clusters call that returns, returns the same merged list; and a
\* compute_area_and_categorize call after a merge_clusters call returns
\* what one merge followed by one compute returns, however many calls of
\* either kind came between.
C25_CallSequences ==
  /\ pp_clusters = all_scale_clusters
  /\ calls # <<>> =>
       LET n == Len(calls) IN
         /\ (calls[n] = "merge" /\ pp_state # "KeyError") => call_ret = footprints
         /\ (calls[n] = "compute" /\ ~MergeReturnedWithin(n - 1)) => call_ret = <<>>
         /\ (calls[n] = "compute" /\ MergeReturnedWithin(n - 1)) =>
              call_ret = MergeThenCompute

\* C25's case: merge, then compute twice in a row, where the geometry pass
\* dropped or reordered ports and kept at least one.
C25_Witness ==
  /\ Len(calls) = 3
  /\ calls = <<"merge", "compute", "compute">>
  /\ call_ret # <<>>
  /\ \A k \in 1..Len(call_ret) :
       k > Len(footprints) \/ call_ret[k].points # footprints[k].points

StageOrder ==
  <<"preprocessing", "clustering", "merge", "geometry", "visualisation", "report">>

MainReturned == {"no_input", "no_chunks", "no_clusters", "no_ports", "done"}

\* C26 (order and returns): the stages main has run are a prefix of
\* preprocessing, clustering, merge, geometry, visualisation, report; after
\* a missing input file no stage runs, after an empty partition list only
\* preprocessing has run, after an empty deduplicated list only the first
\* two, after an empty final port list only the first four; visualisation
\* and the report run only with a non-empty final port list; and a run that
\* has not returned is at a statement that can run.
C26_StagesStopAtEmpty ==
  /\ Len(stages) <= Len(StageOrder)
  /\ \A k \in 1..Len(stages) : stages[k] = StageOrder[k]
  /\ ~input_exists => stages = <<>>
  /\ (Len(stages) >= 1 /\ filtered_chunks = <<>>) =>
       Len(stages) = 1 /\ main_pc = "no_chunks"
  /\ (Len(stages) >= 2 /\ raw_clusters = <<>>) =>
       Len(stages) = 2 /\ main_pc = "no_clusters"
  /\ (Len(stages) >= 4 /\ final_ports = <<>>) =>
       Len(stages) = 4 /\ main_pc = "no_ports"
  /\ Len(stages) >= 5 => final_ports # <<>>
  /\ main_pc = "no_input" => ~input_exists
  /\ main_pc = "done" => stages = StageOrder
  /\ main_pc \notin MainReturned => MainCanStep

\* C26: main keeps to the order and the returns above, and every run ends
\* in one of the returns: missing input, no partitions, no clusters, no
\* final ports, or all stages done.
C26_RunEndsInOrder ==
  /\ []C26_StagesStopAtEmpty
  /\ <>(main_pc \in MainReturned)

\* C26's case: a run went through all six stages although the geometry
\* pass dropped a port.
C26_Witness ==
  /\ main_pc = "done"
  /\ stages = StageOrder
  /\ Len(final_ports) < Len(footprints)

=============================================================================
